---- MODULE Spec2Model ----
(***************************************************************************)
(* The rectangles scene of src/rectangles.rs: the Stats resource, the      *)
(* rectangle entities with their RectangleObject and Transform, the text   *)
(* entity, and the five systems RectanglesPlugin registers.  One frame is  *)
(* one run of the five systems followed by the application of the queued   *)
(* Commands.  No ordering is declared between the systems (lines 13-17),   *)
(* so within a frame they run once each in any order; two systems that     *)
(* share no data may run at the same time, which changes the state as      *)
(* running them one after the other does.                                  *)
(***************************************************************************)
EXTENDS Integers, Sequences, FiniteSets, TLC

(***************************************************************************)
(* Bounds of the model.                                                    *)
(***************************************************************************)
\* frames explored under Spec (every input varies)
MaxTicks == 2
\* frames explored under SpecClicks (only the mouse buttons vary)
MaxClickTicks == 10
\* most entities the world may hold; a left release that would pass it is
\* not offered by the host
MaxRects == 1000
\* most resize events delivered before one frame
MaxEvents == 2

(***************************************************************************)
(* Program constants.                                                      *)
(***************************************************************************)
\* Stats::default()
DefaultCount == 250
\* Stats.count is a u32: a pair of 16-bit limbs, each below Limb
Limb == 65536

(***************************************************************************)
(* u32 arithmetic on [hi, lo] limb pairs.                                  *)
(***************************************************************************)
FromNat(n) == [hi |-> n \div Limb, lo |-> n % Limb]

\* the value of a u32 below 2^31
Val(c) == c.hi * Limb + c.lo

Zero32 == FromNat(0)

One32 == FromNat(1)

Less32(a, b) == a.hi < b.hi \/ (a.hi = b.hi /\ a.lo < b.lo)

\* stats.count * 2: the 32-bit product and whether it overflowed
MulTwo(c) ==
    LET lo2 == c.lo * 2
        hi2 == c.hi * 2 + lo2 \div Limb
    IN  [overflow |-> hi2 >= Limb, val |-> [hi |-> hi2 % Limb, lo |-> lo2 % Limb]]

\* a - b on u32: the 32-bit difference and whether it underflowed
Sub32(a, b) ==
    LET lo == a.lo - b.lo
        borrow == IF lo < 0 THEN 1 ELSE 0
        hi == a.hi - b.hi - borrow
    IN  [overflow |-> hi < 0, val |-> [hi |-> (hi + Limb) % Limb, lo |-> (lo + Limb) % Limb]]

\* stats.count /= 2
DivTwo(c) == [hi |-> c.hi \div 2, lo |-> (c.lo + (c.hi % 2) * Limb) \div 2]

\* max(1, c)
MaxOne(c) == IF Less32(c, One32) THEN One32 ELSE c

(***************************************************************************)
(* Bags of entities: a function from an entity's components to the number  *)
(* of entities that have exactly these components.                         *)
(***************************************************************************)
EmptyBag == <<>>

RECURSIVE BagSize(_)
BagSize(b) ==
    IF DOMAIN b = {} THEN 0
    ELSE LET r == CHOOSE r \in DOMAIN b : TRUE
         IN  b[r] + BagSize([s \in DOMAIN b \ {r} |-> b[s]])

BagOf(b, r) == IF r \in DOMAIN b THEN b[r] ELSE 0

BagPlus(a, b) == [r \in DOMAIN a \cup DOMAIN b |-> BagOf(a, r) + BagOf(b, r)]

BagMinus(a, b) ==
    [r \in {q \in DOMAIN a : a[q] > BagOf(b, q)} |-> a[r] - BagOf(b, r)]

BagFilter(P(_), b) == [r \in {q \in DOMAIN b : P(q)} |-> b[r]]

BagMap(F(_), b) ==
    [s \in {F(r) : r \in DOMAIN b} |->
        BagSize([r \in {q \in DOMAIN b : F(q) = s} |-> b[r]])]

Min(a, b) == IF a < b THEN a ELSE b

(***************************************************************************)
(* Entities.  A component an entity does not have is <<>>; one it has is   *)
(* the one-element tuple of its value.  x and y are the Transform's        *)
(* translation.  despawn marks an entity for which the Commands queue      *)
(* holds a despawn command.                                                *)
(***************************************************************************)
RectangleObject(velocity, width, teleport_target) ==
    [velocity |-> velocity, width |-> width, teleport_target |-> teleport_target]

RectangleEntity(r, x, y) ==
    [rect |-> <<r>>, x |-> x, y |-> y, text |-> <<>>, despawn |-> FALSE]

\* the TextBundle with the StatsText marker; value is sections[1].value
StatsText(value) ==
    [rect |-> <<>>, x |-> 0, y |-> 0, text |-> <<value>>, despawn |-> FALSE]

HasRectangleObject(e) == e.rect # <<>>

HasStatsText(e) == e.text # <<>>

VARIABLES
    count,          \* Stats.count, a u32
    statsChanged,   \* Stats was written since stats_system last ran
    world,          \* the bag of live entities
    spawnQueue,     \* the bag of rectangles the Commands queue will spawn
    window,         \* the primary window's [width, height]
    resizeEvents,   \* the WindowResized events readable in this frame
    left,           \* just_released(MouseButton::Left) in this frame
    right,          \* just_released(MouseButton::Right) in this frame
    dt,             \* time.delta_seconds() in this frame
    rng,            \* what thread_rng() yields in this frame
    runs,           \* how often each system has run in this frame
    phase,          \* "update" while the systems run, "idle" between frames
    tick,           \* frames started
    old,            \* mouse_handler's local `old` at its last run
    calls,          \* the spawn/despawn calls of mouse_handler in this frame
    textWritten,    \* stats_system wrote the label in this frame
    panicked        \* the program has panicked

vars == <<count, statsChanged, world, spawnQueue, window, resizeEvents, left,
          right, dt, rng, runs, phase, tick, old, calls, textWritten, panicked>>

(***************************************************************************)
(* Host inputs.                                                            *)
(***************************************************************************)
\* sizes the primary window takes (widths even, so width / 2. is exact)
WindowSizes == {[width |-> 200, height |-> 100], [width |-> 400, height |-> 200]}

\* the size of a second window
OtherSize == [width |-> 300, height |-> 300]

ResizeEvent(primary, size) ==
    [primary |-> primary, width |-> size.width, height |-> size.height]

EventKinds == {ResizeEvent(TRUE, s) : s \in WindowSizes} \cup {ResizeEvent(FALSE, OtherSize)}

EventBatches == UNION {[1..n -> EventKinds] : n \in 0..MaxEvents}

Buttons == [left : BOOLEAN, right : BOOLEAN]

ClickDeltas == {0}

\* thread_rng(): what the generator yields for the i-th rectangle of a
\* spawn_rectangles call.  size, px and py are rng.gen::<f32>() in halves
\* (0 is 0.0, 1 is 0.5); velocity is rng.gen_range(60.0..120.0).
Seeds == {"low", "mixed"}

LowDraw == [size |-> 0, px |-> 0, py |-> 0, velocity |-> 60]

HighDraw == [size |-> 1, px |-> 1, py |-> 1, velocity |-> 90]

Stream(seed, i) ==
    IF seed = "low" \/ (seed = "mixed" /\ i % 2 = 0) THEN LowDraw ELSE HighDraw

(***************************************************************************)
(* spawn_rectangles: the bag of the num rectangles it queues.              *)
(***************************************************************************)
SpawnedRectangle(win, draw) ==
    LET teleport_target == -(win.width \div 2)
        dimensions == 10 + (draw.size * 40) \div 2
    IN  RectangleEntity(
            RectangleObject(draw.velocity, dimensions, teleport_target - dimensions),
            ((draw.px - 1) * win.width) \div 2,
            ((draw.py - 1) * win.height) \div 2)

spawn_rectangles(win, num, seed) ==
    LET draws == [d \in {Stream(seed, i) : i \in 0..(num - 1)} |->
                    Cardinality({i \in 0..(num - 1) : Stream(seed, i) = d})]
    IN  BagMap(LAMBDA d : SpawnedRectangle(win, d), draws)

(***************************************************************************)
(* despawn_rectangles: rectangles.iter().take(num).  The query's order is  *)
(* not specified: the kind visited first is any, the rest follow in a      *)
(* fixed order.  The result is the bag of the entities taken.              *)
(***************************************************************************)
RECURSIVE TakeRest(_, _)
TakeRest(q, n) ==
    IF n = 0 \/ DOMAIN q = {} THEN EmptyBag
    ELSE LET r == CHOOSE r \in DOMAIN q : TRUE
             k == Min(n, q[r])
         IN  BagPlus([e \in {r} |-> k],
                     TakeRest([s \in DOMAIN q \ {r} |-> q[s]], n - k))

despawn_rectangles(q, num) ==
    IF num = 0 \/ DOMAIN q = {} THEN {EmptyBag}
    ELSE {LET k == Min(num, q[first])
          IN  BagPlus([e \in {first} |-> k],
                      TakeRest([s \in DOMAIN q \ {first} |-> q[s]], num - k))
          : first \in DOMAIN q}

\* the query without its With filter (a fault C3 excludes)
AnyEntityQuery(w) == w

\* Query<Entity, With<RectangleObject>>
RectangleQuery(w) == BagFilter(HasRectangleObject, w)

\* commands.entity(r).despawn() for every entity of the bag taken
MarkDespawn(w, taken) ==
    BagPlus(BagMinus(w, taken), BagMap(LAMBDA e : [e EXCEPT !.despawn = TRUE], taken))

(***************************************************************************)
(* mouse_handler's arithmetic on Stats.count.  An overflowing u32          *)
(* operation panics in a build with overflow checks and wraps in one       *)
(* without: both outcomes are kept.                                        *)
(***************************************************************************)
SpawnCall(num) == [fn |-> "spawn_rectangles", num |-> num]

DespawnCall(num) == [fn |-> "despawn_rectangles", num |-> num]

Outcome(c, cs, p) == [count |-> c, calls |-> cs, panicked |-> p]

\* lines 93-96
LeftRelease(o, oldCount) ==
    LET doubled == MulTwo(o.count)
        new == MaxOne(doubled.val)
        num == Sub32(new, oldCount)
    IN  (IF doubled.overflow THEN {Outcome(o.count, o.calls, TRUE)} ELSE {})
        \cup (IF ~doubled.overflow /\ num.overflow
              THEN {Outcome(new, o.calls, TRUE)} ELSE {})
        \cup {Outcome(new, Append(o.calls, SpawnCall(num.val)), FALSE)}

\* `old` read again after the left branch (a fault C8 excludes)
StaleOld(o, oldCount) == o.count

\* line 92: `old`, read once before either branch
CapturedOld(o, oldCount) == oldCount

\* lines 97-100

RightRelease(o, oldCount) ==
    LET new == DivTwo(o.count)
        num == Sub32(CapturedOld(o, oldCount), new)
    IN  (IF num.overflow THEN {Outcome(new, o.calls, TRUE)} ELSE {})
        \cup {Outcome(new, Append(o.calls, DespawnCall(num.val)), FALSE)}

\* lines 92-100: the outcomes of one run on count c
HandlerOutcomes(c, l, r) ==
    LET start == Outcome(c, <<>>, FALSE)
        afterLeft == IF l THEN LeftRelease(start, c) ELSE {start}
    IN  UNION {IF r /\ ~o.panicked THEN RightRelease(o, c) ELSE {o} : o \in afterLeft}

CallNum(cs, fn) ==
    LET hit == SelectSeq(cs, LAMBDA k : k.fn = fn)
    IN  IF hit = <<>> THEN 0 ELSE Val(hit[1].num)

(***************************************************************************)
(* The decimal string of a number, as a tuple of digit characters.         *)
(***************************************************************************)
Digits == <<"0", "1", "2", "3", "4", "5", "6", "7", "8", "9">>

RECURSIVE Decimal(_)
Decimal(n) ==
    IF n < 10 THEN <<Digits[n + 1]>>
    ELSE Append(Decimal(n \div 10), Digits[(n % 10) + 1])

(***************************************************************************)
(* The state after setup (lines 41-83) and the startup stage's commands.   *)
(***************************************************************************)
Systems ==
    {"bounds_updater", "movement", "collision_detection", "mouse_handler", "stats_system"}

Init ==
    /\ count = FromNat(DefaultCount)
    /\ statsChanged = TRUE
    /\ window \in WindowSizes
    /\ rng \in Seeds
    /\ world = BagPlus(spawn_rectangles(window, DefaultCount, rng),
                       [e \in {StatsText(<<>>)} |-> 1])
    /\ spawnQueue = EmptyBag
    /\ resizeEvents = <<>>
    /\ left = FALSE
    /\ right = FALSE
    /\ dt = 0
    /\ runs = [s \in Systems |-> 0]
    /\ phase = "idle"
    /\ tick = 0
    /\ old = FromNat(DefaultCount)
    /\ calls = <<>>
    /\ textWritten = FALSE
    /\ panicked = FALSE

(***************************************************************************)
(* The host: it delivers the inputs of a frame, then runs the systems.     *)
(***************************************************************************)
PrimaryEvents(events) == SelectSeq(events, LAMBDA e : e.primary)

\* the window is resized as its event is sent
WindowAfter(win, events) ==
    LET prim == PrimaryEvents(events)
    IN  IF prim = <<>> THEN win
        ELSE [width |-> prim[Len(prim)].width, height |-> prim[Len(prim)].height]

\* the rectangles a left release will spawn stay within MaxRects
Fits(b) ==
    b.left => BagSize(world) + Val(Sub32(MaxOne(MulTwo(count).val), count).val) <= MaxRects

BeginTick(maxTicks, buttons, batches, deltas, seeds) ==
    /\ phase = "idle"
    /\ ~panicked
    /\ tick < maxTicks
    /\ \E b \in buttons, ev \in batches, d \in deltas, seed \in seeds :
         /\ Fits(b)
         /\ ~b.left => seed = "low"
         /\ left' = b.left
         /\ right' = b.right
         /\ resizeEvents' = ev
         /\ window' = WindowAfter(window, ev)
         /\ dt' = d
         /\ rng' = seed
    /\ phase' = "update"
    /\ tick' = tick + 1
    /\ UNCHANGED <<count, statsChanged, world, spawnQueue, runs, old, calls,
                   textWritten, panicked>>

\* a system started again within the frame (a fault C9 excludes)
RunsTwice(s) == phase = "update" /\ ~panicked /\ runs[s] < 2

\* add_system with no ordering: a system may start when it has not run yet
Runnable(s) == phase = "update" /\ ~panicked /\ runs[s] = 0

Ran(s) == runs' = [runs EXCEPT ![s] = @ + 1]

HostVars == <<window, resizeEvents, left, right, dt, rng, phase, tick>>

(***************************************************************************)
(* The systems.                                                            *)
(***************************************************************************)
\* the first primary event instead of the last (a fault C5 excludes)
FirstPrimary(events) ==
    LET prim == PrimaryEvents(events)
    IN  IF prim = <<>> THEN <<>> ELSE <<prim[1]>>

\* lines 158-162
TargetEvent(events) ==
    LET prim == PrimaryEvents(events)
    IN  IF prim = <<>> THEN <<>> ELSE <<prim[Len(prim)]>>

\* lines 165-168
UpdateBounds(e, width) ==
    IF HasRectangleObject(e)
    THEN [e EXCEPT !.rect = <<[e.rect[1] EXCEPT
                                !.teleport_target = -(width \div 2) - e.rect[1].width]>>]
    ELSE e

bounds_updater ==
    /\ Runnable("bounds_updater")
    /\ Ran("bounds_updater")
    /\ LET target_event == TargetEvent(resizeEvents)
       IN  world' = IF target_event # <<>>
                    THEN BagMap(LAMBDA e : UpdateBounds(e, target_event[1].width), world)
                    ELSE world
    /\ UNCHANGED <<count, statsChanged, spawnQueue, old, calls, textWritten, panicked>>
    /\ UNCHANGED HostVars

\* lines 173-175
Move(e, delta_seconds) ==
    IF HasRectangleObject(e)
    THEN [e EXCEPT !.x = e.x - e.rect[1].velocity * delta_seconds]
    ELSE e

movement ==
    /\ Runnable("movement")
    /\ Ran("movement")
    /\ world' = BagMap(LAMBDA e : Move(e, dt), world)
    /\ UNCHANGED <<count, statsChanged, spawnQueue, old, calls, textWritten, panicked>>
    /\ UNCHANGED HostVars

\* a clamp to the threshold instead of a reflection (a fault C6 excludes)
ReflectClamp(e) ==
    IF HasRectangleObject(e) /\ e.x < e.rect[1].teleport_target
    THEN [e EXCEPT !.x = e.rect[1].teleport_target]
    ELSE e

\* the comparison turned around (a fault C10 excludes)
ReflectAbove(e) ==
    IF HasRectangleObject(e) /\ e.x > e.rect[1].teleport_target
    THEN [e EXCEPT !.x = -e.x]
    ELSE e

\* lines 179-183
Reflect(e) ==
    IF HasRectangleObject(e) /\ e.x < e.rect[1].teleport_target
    THEN [e EXCEPT !.x = -e.x]
    ELSE e

collision_detection ==
    /\ Runnable("collision_detection")
    /\ Ran("collision_detection")
    /\ world' = BagMap(Reflect, world)
    /\ UNCHANGED <<count, statsChanged, spawnQueue, old, calls, textWritten, panicked>>
    /\ UNCHANGED HostVars

\* lines 85-101
mouse_handler ==
    /\ Runnable("mouse_handler")
    /\ Ran("mouse_handler")
    /\ old' = count
    /\ \E o \in HandlerOutcomes(count, left, right) :
         /\ count' = o.count
         /\ calls' = o.calls
         /\ panicked' = o.panicked
         /\ spawnQueue' = spawn_rectangles(window, CallNum(o.calls, "spawn_rectangles"), rng)
         /\ \E taken \in despawn_rectangles(RectangleQuery(world),
                                            CallNum(o.calls, "despawn_rectangles")) :
              world' = MarkDespawn(world, taken)
    /\ statsChanged' = (statsChanged \/ left \/ right)
    /\ UNCHANGED textWritten
    /\ UNCHANGED HostVars

\* lines 186-194
\* the write without the clear() before it (a fault C7 excludes)
WriteLabelNoClear(e, n) ==
    IF HasStatsText(e) THEN [e EXCEPT !.text = <<e.text[1] \o Decimal(n)>>] ELSE e

\* lines 192-193: clear() and write!("{}")
WriteLabel(e, n) == IF HasStatsText(e) THEN [e EXCEPT !.text = <<Decimal(n)>>] ELSE e

stats_system ==
    /\ Runnable("stats_system")
    /\ Ran("stats_system")
    /\ statsChanged' = FALSE
    /\ IF ~statsChanged
       THEN UNCHANGED <<world, textWritten, panicked>>
       ELSE IF BagSize(BagFilter(HasStatsText, world)) # 1
            THEN panicked' = TRUE /\ UNCHANGED <<world, textWritten>>
            ELSE /\ world' = BagMap(LAMBDA e : WriteLabel(e, Val(count)), world)
                 /\ textWritten' = TRUE
                 /\ UNCHANGED panicked
    /\ UNCHANGED <<count, spawnQueue, old, calls>>
    /\ UNCHANGED HostVars

\* the end of the stage: the queued commands are applied, and what the
\* frame's inputs and the handler's locals held is gone
ApplyCommands ==
    /\ phase = "update"
    /\ ~panicked
    /\ \A s \in Systems : runs[s] > 0
    /\ world' = BagPlus(BagFilter(LAMBDA e : ~e.despawn, world), spawnQueue)
    /\ spawnQueue' = EmptyBag
    /\ phase' = "idle"
    /\ resizeEvents' = <<>>
    /\ left' = FALSE
    /\ right' = FALSE
    /\ dt' = 0
    /\ rng' = "low"
    /\ runs' = [s \in Systems |-> 0]
    /\ old' = count
    /\ calls' = <<>>
    /\ textWritten' = FALSE
    /\ UNCHANGED <<count, statsChanged, window, tick, panicked>>

(***************************************************************************)
(* Specifications.                                                         *)
(***************************************************************************)
\* time.delta_seconds(), in seconds
Deltas == {1}

HostFrame == BeginTick(MaxTicks, Buttons, EventBatches, Deltas, Seeds)

Next ==
    \/ HostFrame
    \/ bounds_updater
    \/ movement
    \/ collision_detection
    \/ mouse_handler
    \/ stats_system
    \/ ApplyCommands

Spec == Init /\ [][Next]_vars

\* The same program in a quiet window: no resize events, one generator
\* stream, a clock that stands still (delta_seconds is 0), and only the
\* mouse buttons vary, over more frames.
InitClicks == Init /\ rng = "low" /\ window = [width |-> 200, height |-> 100]

ClickFrame == BeginTick(MaxClickTicks, Buttons, {<<>>}, ClickDeltas, {"low"})

NextClicks ==
    \/ ClickFrame
    \/ bounds_updater
    \/ movement
    \/ collision_detection
    \/ mouse_handler
    \/ stats_system
    \/ ApplyCommands

SpecClicks == InitClicks /\ [][NextClicks]_vars

\* mouse_handler on the Stats resource alone (lines 92-100): count, old and
\* the num it passes to spawn_rectangles and despawn_rectangles, over every
\* count a u32 holds.  The entities are left as they are: no world holds 2^31
\* of them.
mouse_handler_stats ==
    /\ ~panicked
    /\ \E b \in Buttons :
         /\ b.left \/ b.right
         /\ left' = b.left
         /\ right' = b.right
         /\ \E o \in HandlerOutcomes(count, b.left, b.right) :
              /\ count' = o.count
              /\ calls' = o.calls
              /\ panicked' = o.panicked
    /\ old' = count
    /\ statsChanged' = TRUE
    /\ UNCHANGED <<world, spawnQueue, window, resizeEvents, dt, rng, runs, phase,
                   tick, textWritten>>

SpecCounter == InitClicks /\ [][mouse_handler_stats]_vars

(***************************************************************************)
(* What the claims speak of.                                               *)
(***************************************************************************)
Rectangles(w) == BagFilter(HasRectangleObject, w)

NumRectangles(w) == BagSize(Rectangles(w))

Texts(w) == BagFilter(HasStatsText, w)

\* sections[1].value of the text entity
Label(w) == (CHOOSE e \in DOMAIN w : HasStatsText(e)).text[1]

\* system s runs in this step
Step(s) == runs'[s] = runs[s] + 1

\* the queued commands are applied in this step
ApplyStep == phase = "update" /\ phase' = "idle"

AllRan == phase = "update" /\ \A s \in Systems : runs[s] = 1

(***************************************************************************)
(* C1: at the end of every frame, whatever buttons were released in it,    *)
(* the number of live rectangles equals Stats.count.                       *)
(***************************************************************************)
C1_RegistryEqualsTarget ==
    phase = "idle" => NumRectangles(world) = Val(count)

(***************************************************************************)
(* C2: when only the left button is released and the old count is n, the   *)
(* new count is max(1, 2 * n) and exactly max(1, 2 * n) - n rectangles are *)
(* spawned.  Stated on the handler's arithmetic: the new count halves back *)
(* to n and is even (or is 1 when n is 0), and the one call made is the    *)
(* spawn of new - n, which is not negative.                                *)
(***************************************************************************)
C2_LeftDoublesTarget ==
    (left /\ ~right) =>
        /\ ~panicked
        /\ IF old = Zero32 THEN count = One32
           ELSE DivTwo(count) = old /\ count.lo % 2 = 0
        /\ ~Less32(count, old)
        /\ calls = <<SpawnCall(Sub32(count, old).val)>>

(***************************************************************************)
(* C3: when only the right button is released and the old count is n, the  *)
(* new count is floor(n / 2), the frame's commands remove exactly          *)
(* n - floor(n / 2) rectangles, neither number is ever negative, and the   *)
(* text entity is not removed.                                             *)
(***************************************************************************)
C3_RightHalvesTarget ==
    [][(ApplyStep /\ right /\ ~left) =>
          /\ 2 * Val(count) <= Val(old)
          /\ Val(old) <= 2 * Val(count) + 1
          /\ count.hi >= 0 /\ count.lo >= 0
          /\ NumRectangles(world') = NumRectangles(world) - (Val(old) - Val(count))
          /\ NumRectangles(world') >= 0
          /\ Texts(world') = Texts(world)
          /\ BagSize(Texts(world')) = 1]_vars

\* a frame, about to end, in which the right release took the count from 1
\* to 0 and the last rectangle is queued for despawn
C3_Witness ==
    /\ AllRan
    /\ right /\ ~left
    /\ old = One32 /\ count = Zero32
    /\ \E e \in DOMAIN world : HasRectangleObject(e) /\ e.despawn

(***************************************************************************)
(* C4: for every count a u32 holds, a left release computes                *)
(* max(1, count * 2) and new - old without wrap-around: neither the        *)
(* doubling nor the subtraction overflows, and the spawn is of new - old.  *)
(***************************************************************************)
C4_DoublingNeverOverflows ==
    left =>
        /\ ~panicked
        /\ ~MulTwo(old).overflow
        /\ ~Sub32(MaxOne(MulTwo(old).val), old).overflow
        /\ calls # <<>>
        /\ calls[1] = SpawnCall(Sub32(MaxOne(MulTwo(old).val), old).val)

(***************************************************************************)
(* C5: at the end of a frame that had resize events of the primary window  *)
(* pending, every live rectangle's teleport_target is -(W / 2) - width for *)
(* its own width, W being the width of the last such event; events of      *)
(* other windows change no teleport_target; bounds_updater changes no      *)
(* width, velocity or position.                                            *)
(***************************************************************************)
HasPrimary(events) == \E i \in 1..Len(events) : events[i].primary

LastPrimaryWidth(events) ==
    LET i == CHOOSE i \in 1..Len(events) :
                /\ events[i].primary
                /\ \A j \in (i + 1)..Len(events) : ~events[j].primary
    IN  events[i].width

WithoutTarget(e) ==
    IF HasRectangleObject(e)
    THEN [e EXCEPT !.rect = <<[e.rect[1] EXCEPT !.teleport_target = 0]>>]
    ELSE e

C5_BoundsFollowLastPrimaryResize ==
    [][/\ (ApplyStep /\ HasPrimary(resizeEvents)) =>
            \A e \in DOMAIN world' :
                HasRectangleObject(e) =>
                    e.rect[1].teleport_target =
                        -(LastPrimaryWidth(resizeEvents) \div 2) - e.rect[1].width
       /\ Step("bounds_updater") =>
            /\ ~HasPrimary(resizeEvents) => world' = world
            /\ BagMap(WithoutTarget, world') = BagMap(WithoutTarget, world)]_vars

\* a frame, about to end, that had two primary resize events of different
\* widths and queued new rectangles
C5_Witness ==
    /\ AllRan
    /\ Len(resizeEvents) = 2
    /\ resizeEvents[1].primary /\ resizeEvents[2].primary
    /\ resizeEvents[1].width # resizeEvents[2].width
    /\ spawnQueue # EmptyBag
    /\ \E e \in DOMAIN world : HasRectangleObject(e)

(***************************************************************************)
(* C6: collision_detection negates the x of exactly the rectangles whose x *)
(* is below their teleport_target, leaves every other x as it is, changes  *)
(* nothing else, and treats each rectangle by itself.                      *)
(***************************************************************************)
Crossed(e) == HasRectangleObject(e) /\ e.x < e.rect[1].teleport_target

Mirrored(e) == IF Crossed(e) THEN [e EXCEPT !.x = 0 - e.x] ELSE e

C6_ReflectionIsExactNegation ==
    [][Step("collision_detection") =>
          /\ BagSize(world') = BagSize(world)
          /\ \A e \in DOMAIN world : Mirrored(e) \in DOMAIN world'
          /\ \A f \in DOMAIN world' :
                world'[f] = BagSize([e \in {q \in DOMAIN world : Mirrored(q) = f} |-> world[e]])
          /\ UNCHANGED <<count, statsChanged, spawnQueue, window>>]_vars

\* collision_detection has run; one rectangle was reflected to a positive x
\* and another, still left of the origin and not across, was left alone
C6_Witness ==
    /\ phase = "update"
    /\ runs["collision_detection"] = 1
    /\ \E e, f \in DOMAIN world :
         /\ HasRectangleObject(e) /\ e.x > 0
         /\ HasRectangleObject(f) /\ f.x < 0 /\ ~Crossed(f)

(***************************************************************************)
(* C7: stats_system leaves the label alone in a frame in which Stats was   *)
(* not written since it last ran; when Stats was written it replaces the   *)
(* label by the decimal string of Stats.count; so once it has run, and     *)
(* until Stats is written again, the label shows Stats.count.              *)
(***************************************************************************)
DigitValue(ch) == (CHOOSE i \in 1..10 : Digits[i] = ch) - 1

RECURSIVE ParseDecimal(_)
ParseDecimal(str) ==
    IF str = <<>> THEN 0
    ELSE 10 * ParseDecimal(SubSeq(str, 1, Len(str) - 1)) + DigitValue(str[Len(str)])

Shows(w, c) ==
    LET v == Label(w)
    IN  /\ v # <<>>
        /\ \A i \in 1..Len(v) : \E d \in 1..10 : Digits[d] = v[i]
        /\ Len(v) > 1 => v[1] # "0"
        /\ ParseDecimal(v) = Val(c)

C7_LabelRewrittenOnlyOnChange ==
    [][/\ Step("stats_system") =>
            IF statsChanged
            THEN textWritten' /\ Shows(world', count)
            ELSE world' = world /\ ~textWritten'
       /\ ~statsChanged' => Shows(world', count')]_vars

\* a later frame in which nothing was released: stats_system has run, has
\* not written, and the label still reads 500
C7_Witness ==
    /\ phase = "update"
    /\ tick >= 2
    /\ ~left /\ ~right
    /\ runs["stats_system"] = 1
    /\ ~textWritten
    /\ count = FromNat(500)
    /\ Label(world) = <<"5", "0", "0">>

(***************************************************************************)
(* C8: when both buttons are released in one frame, the left branch is     *)
(* done first (double, spawn new - old), then the right branch (halve,     *)
(* despawn old - new), and both subtractions use the one `old` read before *)
(* either branch.                                                          *)
(***************************************************************************)
C8_BothButtonsShareOld ==
    (left /\ right /\ ~panicked) =>
        LET doubled == MaxOne(MulTwo(old).val)
        IN  /\ count = DivTwo(doubled)
            /\ calls = <<SpawnCall(Sub32(doubled, old).val),
                         DespawnCall(Sub32(old, count).val)>>

\* both released at 250: 250 spawned, then none despawned, count 250 again
C8_Witness ==
    /\ left /\ right /\ ~panicked
    /\ old = FromNat(250)
    /\ count = FromNat(250)
    /\ calls = <<SpawnCall(FromNat(250)), DespawnCall(FromNat(0))>>

NegativeTargets(w) ==
    \A e \in DOMAIN w : HasRectangleObject(e) => e.rect[1].teleport_target < 0

C10_NoRectangleLeftAcross ==
    [][/\ NegativeTargets(world) /\ NegativeTargets(world')
       /\ NegativeTargets(spawnQueue')
       /\ Step("collision_detection") =>
            /\ \A e \in DOMAIN world' : ~Crossed(e)
            /\ \A e \in DOMAIN world : Crossed(e) => Mirrored(e).x > 0]_vars

\* collision_detection has run and a reflected rectangle sits beyond the
\* mirror image of its teleport_target
C10_Witness ==
    /\ phase = "update"
    /\ runs["collision_detection"] = 1
    /\ \E e \in DOMAIN world :
         HasRectangleObject(e) /\ e.x > 0 - e.rect[1].teleport_target
    /\ \A e \in DOMAIN world : ~Crossed(e)

====
